---- MODULE Spec2Model ----
(***************************************************************************)
(* The wallet ledger of paypadi: wallets, transactions, the Wallet model   *)
(* methods, the transfer view, the payment service and the two webhook     *)
(* endpoints, as request processes running against one relational store.   *)
(*                                                                         *)
(* Each request is a process that executes its handler one database        *)
(* statement at a time.  The store has READ COMMITTED semantics: writes     *)
(* made inside an atomic block stay in the writer's overlay (wb, and        *)
(* transaction rows owned by the writer) until the block commits, and a     *)
(* row lock taken inside an atomic block is held until the block ends.      *)
(* A statement issued outside an atomic block runs in autocommit mode:      *)
(* it takes effect at once and retains no lock, so a select_for_update      *)
(* outside an atomic block is a plain read (requests are not wrapped in a   *)
(* transaction of their own).                                               *)
(*                                                                         *)
(* Money is counted in whole minor units.  The payment gateway is an        *)
(* external collaborator: each call to it answers with any of the           *)
(* outcomes its interface allows.  Handlers are modelled from the point     *)
(* where the serializer has accepted the request.                           *)
(***************************************************************************)
EXTENDS Integers, FiniteSets, Sequences, TLC

\* ---- bounds of the model ----
NumProcs ==
    2
MaxRequests ==
    3
MaxAmount ==
    2
MaxClock ==
    1

\* every request inserts at most one row, so the table never fills up
MaxTxns ==
    MaxRequests
\* every wallet starts with enough for one transfer of the largest amount
InitBalance ==
    MaxAmount

Users ==
    {"u1", "u2"}
Procs ==
    1..NumProcs
TxnIds ==
    1..MaxTxns
Amounts ==
    1..MaxAmount

VARIABLES
    balance,    \* Wallet.balance of each user's wallet, as committed
    reserved,   \* Wallet.reserved_balance, as committed
    txns,       \* the Transaction table: id -> row (NoTxn for a free id)
    lock,       \* the holder of each wallet row's lock (0 = free)
    clock,      \* timezone.now() in whole seconds
    nreq,       \* the number of requests received so far
    proc,       \* the request each worker is handling
    accounts,   \* the users that sign up later: created or not, and their wallet rows
    otps,       \* the OTP table: id -> row (NoOtp for a free id)
    sessions,   \* the session store: what each client's session holds
    registered, \* the User rows made by registration: phone number -> the phone the session had verified
    payouts     \* the DriverPayoutAccount table; per driver, the row last saved as primary
                \* and whether a save has taken the flag from another row

vars ==
    <<balance, reserved, txns, lock, clock, nreq, proc, accounts, otps, sessions, registered, payouts>>

\* ---- the Transaction table ----
NoRef ==
    <<"", 0, "">>
NoTxn ==
    [wallet |-> "", amount |-> 0, type |-> "", status |-> "", ref |-> NoRef,
     err |-> FALSE, owner |-> 0, src |-> "", net |-> 0, by |-> ""]
FreeIds ==
    {t \in TxnIds : txns[t] = NoTxn}
NextId ==
    CHOOSE t \in FreeIds : \A s \in FreeIds : t <= s
\* a new row; src, net and by are bookkeeping of the model: the operation that
\* created the row, the sum of the balance changes made on its behalf, and the
\* operation that last wrote its status
NewTxn(w, a, ty, st, r, p, s) ==
    [wallet |-> w, amount |-> a, type |-> ty, status |-> st, ref |-> r,
     err |-> FALSE, owner |-> p, src |-> s, net |-> 0, by |-> ""]
\* Transaction.save: an empty reference is replaced by a generated one
SavedRef(r, t) ==
    IF r = NoRef THEN <<"TXN", t, "">> ELSE r
\* the unique constraint on Transaction.reference
RefTaken(r) ==
    \E t \in TxnIds : txns[t] # NoTxn /\ txns[t].ref = r
\* rows a query of process p can see: committed ones and its own
Visible(p) ==
    {t \in TxnIds : txns[t] # NoTxn /\ txns[t].owner \in {0, p}}

\* ---- request processes ----
NoWrites ==
    [u \in Users |-> -1]
IdleProc ==
    [pc |-> "idle", op |-> "", usr |-> "", amt |-> 0, rcp |-> "", ref |-> NoRef,
     ty |-> "", lst |-> "", pin |-> "", tid |-> 0, lbal |-> 0, lres |-> 0, rbal |-> 0, gw |-> "", out |-> "",
     wb |-> NoWrites, postS |-> 0, postR |-> 0]
Set(p, r) ==
    proc' = [proc EXCEPT ![p] = r]
\* a row may be written (or locked) by p unless another process holds its lock
CanWrite(p, u) ==
    lock[u] \in {0, p}
\* the balance of u's wallet as a query of process p reads it
ReadBalance(p, u) ==
    IF proc[p].wb[u] # -1 THEN proc[p].wb[u] ELSE balance[u]
\* leaving an atomic block normally: the overlay becomes the committed state
CommitBalance(wb) ==
    [u \in Users |-> IF wb[u] # -1 THEN wb[u] ELSE balance[u]]
CommitTxns(p, tx) ==
    [t \in TxnIds |-> IF tx[t].owner = p THEN [tx[t] EXCEPT !.owner = 0] ELSE tx[t]]
\* leaving an atomic block by an exception: the rows it inserted are gone
RollbackTxns(p, tx) ==
    [t \in TxnIds |-> IF tx[t].owner = p THEN NoTxn ELSE tx[t]]
\* the end of an atomic block releases its row locks
Unlock(p) ==
    [u \in Users |-> IF lock[u] = p THEN 0 ELSE lock[u]]
\* a worker accepts a request
Accept ==
    /\ nreq < MaxRequests
    /\ nreq' = nreq + 1

\* the people who have not signed up yet
NewUsers ==
    {"u3", "u4"}
NoAccount ==
    [created |-> FALSE, profile |-> FALSE, wallets |-> 0]

\* ---- phone verification, registration and payout accounts: the tables ----
MaxOtps ==
    3
MaxPayoutAccounts ==
    3
\* how many clock ticks an OTP lives (expiry_minutes)
OtpLifetime ==
    1
Phones ==
    {"ph1", "ph2"}
Purposes ==
    {"login", "reset_password"}
Codes ==
    {"111111", "222222"}
Clients ==
    {"c1", "c2"}
Drivers ==
    {"d1", "d2"}
OtpIds ==
    1..MaxOtps
PayoutIds ==
    1..MaxPayoutAccounts
NoOtp ==
    [phone |-> "", purpose |-> "", code |-> "", expires |-> 0, used |-> FALSE]
\* a session without 'phone_verified' and 'verified_phone'
NoSession ==
    [phone_verified |-> FALSE, verified_phone |-> ""]
NotRegistered ==
    "-"
NoPayoutAccount ==
    [driver |-> "", primary |-> FALSE]
NoPayouts ==
    [rows |-> [a \in PayoutIds |-> NoPayoutAccount], last |-> [d \in Drivers |-> 0],
     moved |-> [d \in Drivers |-> FALSE]]

Init ==
    /\ balance = [u \in Users |-> InitBalance]
    /\ reserved = [u \in Users |-> 0]
    /\ txns = [t \in TxnIds |-> NoTxn]
    /\ lock = [u \in Users |-> 0]
    /\ clock = 0
    /\ nreq = 0
    /\ proc = [p \in Procs |-> IdleProc]
    /\ accounts = [u \in NewUsers |-> NoAccount]
    /\ otps = [i \in OtpIds |-> NoOtp]
    /\ sessions = [c \in Clients |-> NoSession]
    /\ registered = [ph \in Phones |-> NotRegistered]
    /\ payouts = NoPayouts

\* the response has been sent: the worker takes the next request
Return(p) ==
    /\ proc[p].pc = "done"
    /\ Set(p, IdleProc)
    /\ UNCHANGED <<balance, reserved, txns, lock, clock, nreq, accounts, otps, sessions, registered, payouts>>

\* timezone.now() moves to the next second
Tick ==
    /\ clock < MaxClock
    /\ clock' = clock + 1
    /\ UNCHANGED <<balance, reserved, txns, lock, nreq, proc, accounts, otps, sessions, registered, payouts>>

\* ---- Wallet model methods (wallets/models.py) ----
WalletOps ==
    {"deposit", "withdraw", "reserve_funds", "release_reserved_funds",
     "complete_reservation"}
\* the references a caller passes in
UserRefs ==
    {<<"REF", 1, "">>}

\* the caller loads the Wallet instance and calls the method on it
WalletCall(p) ==
    /\ proc[p].pc = "idle"
    /\ Accept
    /\ \E m \in WalletOps, u \in Users, a \in 0..MaxAmount, r \in UserRefs \cup {NoRef} :
        Set(p, [IdleProc EXCEPT !.pc = "w_exec", !.op = m, !.usr = u, !.amt = a,
                    !.ref = r, !.lbal = balance[u], !.lres = reserved[u]])
    /\ UNCHANGED <<balance, reserved, txns, lock, clock, accounts, otps, sessions, registered, payouts>>

\* a wallet that lets every withdrawal through
can_always_withdraw(p) ==
    TRUE

\* Wallet.can_withdraw, on the instance the caller loaded
can_withdraw(p) ==
    proc[p].lbal - proc[p].lres >= proc[p].amt

\* Wallet.deposit up to self.save
DepositSave(p) ==
    LET r == proc[p] IN
    /\ r.pc = "w_exec" /\ r.op = "deposit"
    /\ IF r.amt <= 0
       THEN /\ Set(p, [r EXCEPT !.pc = "done", !.out = "ValueError"])
            /\ UNCHANGED balance
       ELSE /\ CanWrite(p, r.usr)
            /\ balance' = [balance EXCEPT ![r.usr] = r.lbal + r.amt]
            /\ Set(p, [r EXCEPT !.pc = "w_txn", !.lbal = r.lbal + r.amt])
    /\ UNCHANGED <<reserved, txns, lock, clock, nreq, accounts, otps, sessions, registered, payouts>>

\* Wallet.withdraw up to self.save
WithdrawSave(p) ==
    LET r == proc[p] IN
    /\ r.pc = "w_exec" /\ r.op = "withdraw"
    /\ IF r.amt <= 0
       THEN /\ Set(p, [r EXCEPT !.pc = "done", !.out = "ValueError"])
            /\ UNCHANGED balance
       ELSE IF ~can_withdraw(p)
       THEN /\ Set(p, [r EXCEPT !.pc = "done", !.out = "Insufficient"])
            /\ UNCHANGED balance
       ELSE /\ CanWrite(p, r.usr)
            /\ balance' = [balance EXCEPT ![r.usr] = r.lbal - r.amt]
            /\ Set(p, [r EXCEPT !.pc = "w_txn", !.lbal = r.lbal - r.amt])
    /\ UNCHANGED <<reserved, txns, lock, clock, nreq, accounts, otps, sessions, registered, payouts>>

\* Wallet.reserve_funds up to self.save
ReserveSave(p) ==
    LET r == proc[p] IN
    /\ r.pc = "w_exec" /\ r.op = "reserve_funds"
    /\ IF r.amt <= 0
       THEN /\ Set(p, [r EXCEPT !.pc = "done", !.out = "ValueError"])
            /\ UNCHANGED reserved
       ELSE IF ~can_withdraw(p)
       THEN /\ Set(p, [r EXCEPT !.pc = "done", !.out = "Insufficient"])
            /\ UNCHANGED reserved
       ELSE /\ CanWrite(p, r.usr)
            /\ reserved' = [reserved EXCEPT ![r.usr] = r.lres + r.amt]
            /\ Set(p, [r EXCEPT !.pc = "w_txn", !.lres = r.lres + r.amt])
    /\ UNCHANGED <<balance, txns, lock, clock, nreq, accounts, otps, sessions, registered, payouts>>

WalletTxnType(m) ==
    CASE m = "deposit" -> "deposit"
      [] m = "withdraw" -> "withdrawal"
      [] OTHER -> "reservation"
WalletTxnStatus(m) ==
    IF m = "reserve_funds" THEN "pending" ELSE "completed"
WalletTxnNet(m, a) ==
    CASE m = "deposit" -> a
      [] m = "withdraw" -> 0 - a
      [] OTHER -> 0

\* Transaction.objects.create at the end of deposit, withdraw and reserve_funds
WalletCreateTxn(p) ==
    LET r == proc[p]
        t == NextId
        ref == SavedRef(r.ref, t) IN
    /\ r.pc = "w_txn"
    /\ IF RefTaken(ref)
       THEN /\ Set(p, [r EXCEPT !.pc = "done", !.out = "IntegrityError"])
            /\ UNCHANGED txns
       ELSE /\ txns' = [txns EXCEPT ![t] =
                    [NewTxn(r.usr, r.amt, WalletTxnType(r.op), WalletTxnStatus(r.op), ref, 0, r.op)
                        EXCEPT !.net = WalletTxnNet(r.op, r.amt)]]
            /\ Set(p, [r EXCEPT !.pc = "done", !.out = "ok", !.tid = t])
    /\ UNCHANGED <<balance, reserved, lock, clock, nreq, accounts, otps, sessions, registered, payouts>>

\* a wallet that releases any amount
AnyReleaseAmount(a, rsv) ==
    FALSE

\* amount <= 0 or amount > self.reserved_balance
InvalidReleaseAmount(a, rsv) ==
    a <= 0 \/ a > rsv

\* release_reserved_funds and complete_reservation up to self.save
ReservationSave(p) ==
    LET r == proc[p] IN
    /\ r.pc = "w_exec" /\ r.op \in {"release_reserved_funds", "complete_reservation"}
    /\ IF InvalidReleaseAmount(r.amt, r.lres)
       THEN /\ Set(p, [r EXCEPT !.pc = "done", !.out = "ValueError"])
            /\ UNCHANGED reserved
       ELSE /\ CanWrite(p, r.usr)
            /\ reserved' = [reserved EXCEPT ![r.usr] = r.lres - r.amt]
            /\ Set(p, [r EXCEPT !.pc = IF r.ref = NoRef THEN "done" ELSE "w_find",
                                !.out = IF r.ref = NoRef THEN "ok" ELSE "",
                                !.lres = r.lres - r.amt])
    /\ UNCHANGED <<balance, txns, lock, clock, nreq, accounts, otps, sessions, registered, payouts>>

\* Transaction.objects.get(reference, type RESERVATION, status PENDING)
ReservationFind(p) ==
    LET r == proc[p]
        found == {t \in Visible(p) : /\ txns[t].ref = r.ref
                                     /\ txns[t].type = "reservation"
                                     /\ txns[t].status = "pending"} IN
    /\ r.pc = "w_find"
    /\ IF found = {}
       THEN Set(p, [r EXCEPT !.pc = "done", !.out = "ok"])
       ELSE \E t \in found : Set(p, [r EXCEPT !.pc = "w_mark", !.tid = t])
    /\ UNCHANGED <<balance, reserved, txns, lock, clock, nreq, accounts, otps, sessions, registered, payouts>>

\* a wallet that completes every reservation it is asked to end
AlwaysCompleted(m) ==
    "completed"

ReservationEndStatus(m) ==
    IF m = "release_reserved_funds" THEN "cancelled" ELSE "completed"

\* reservation.status = ...; reservation.save()
ReservationMark(p) ==
    LET r == proc[p] IN
    /\ r.pc = "w_mark"
    /\ txns' = [txns EXCEPT ![r.tid].status = ReservationEndStatus(r.op),
                            ![r.tid].by = r.op]
    /\ Set(p, [r EXCEPT !.pc = "done", !.out = "ok"])
    /\ UNCHANGED <<balance, reserved, lock, clock, nreq, accounts, otps, sessions, registered, payouts>>

WalletStep(p) ==
    \/ WalletCall(p)
    \/ DepositSave(p)
    \/ WithdrawSave(p)
    \/ ReserveSave(p)
    \/ WalletCreateTxn(p)
    \/ ReservationSave(p)
    \/ ReservationFind(p)
    \/ ReservationMark(p)

NextWallet ==
    \E p \in Procs : WalletStep(p) \/ Return(p)

SpecWallet ==
    Init /\ [][NextWallet]_vars

\* ---- views.TransferFundsView.post (wallets/views.py) ----
\* recipient_phone of a platform user, or a bank / unknown phone recipient
Recipients ==
    Users \cup {"bank"}

\* the PINs a request can carry; every user has set the first one
Pins ==
    {"1234", "0000"}
StoredPin ==
    "1234"

\* a transfer view that takes any PIN
AnyPin(u, pin) ==
    TRUE

\* User.check_transaction_pin: the PIN is checked against the stored hash
check_transaction_pin(u, pin) ==
    pin = StoredPin

\* the request passed the serializer; check_transaction_pin decides the rest
TVStart(p) ==
    /\ proc[p].pc = "idle"
    /\ Accept
    /\ \E u \in Users, a \in Amounts, pin \in Pins, rc \in Recipients :
        LET r == [IdleProc EXCEPT !.op = "transfer", !.usr = u, !.amt = a, !.rcp = rc,
                                  !.pin = pin] IN
        IF check_transaction_pin(u, pin)
        THEN Set(p, [r EXCEPT !.pc = "tv_lock"])
        ELSE Set(p, [r EXCEPT !.pc = "done", !.out = "InvalidPin"])
    /\ UNCHANGED <<balance, reserved, txns, lock, clock, accounts, otps, sessions, registered, payouts>>

\* a balance check that lets every amount through
AlwaysSufficient(u, a) ==
    FALSE

\* wallet.available_balance < amount, on the wallet row as the handler reads it
InsufficientBalance(u, a) ==
    balance[u] - reserved[u] < a

\* with transaction.atomic(): select_for_update on the sender's wallet, then
\* the balance check; returning the 400 response ends the atomic block
TVLock(p) ==
    LET r == proc[p] IN
    /\ r.pc = "tv_lock"
    /\ CanWrite(p, r.usr)
    /\ IF InsufficientBalance(r.usr, r.amt)
       THEN /\ Set(p, [r EXCEPT !.pc = "done", !.out = "Insufficient",
                                !.lbal = balance[r.usr], !.lres = reserved[r.usr]])
            /\ UNCHANGED lock
       ELSE /\ Set(p, [r EXCEPT !.pc = "tv_create",
                                !.lbal = balance[r.usr], !.lres = reserved[r.usr]])
            /\ lock' = [lock EXCEPT ![r.usr] = p]
    /\ UNCHANGED <<balance, reserved, txns, clock, nreq, accounts, otps, sessions, registered, payouts>>

\* reference = f"TRF-{now:%Y%m%d%H%M%S}-{user.id}"
TransferReference(u) ==
    <<"TRF", clock, u>>

\* Transaction.objects.create of the pending transfer; an IntegrityError is
\* raised outside the try block and rolls the atomic block back
TVCreate(p) ==
    LET r == proc[p]
        t == NextId
        ref == TransferReference(r.usr) IN
    /\ r.pc = "tv_create"
    /\ IF RefTaken(ref)
       THEN /\ Set(p, [r EXCEPT !.pc = "done", !.out = "IntegrityError"])
            /\ txns' = RollbackTxns(p, txns)
            /\ lock' = Unlock(p)
       ELSE /\ txns' = [txns EXCEPT ![t] =
                    NewTxn(r.usr, r.amt, "transfer", "pending", ref, p, "tv")]
            /\ Set(p, [r EXCEPT !.tid = t,
                                !.pc = IF r.rcp \in Users THEN "tv_rlock" ELSE "tv_finish"])
            /\ UNCHANGED lock
    /\ UNCHANGED <<balance, reserved, clock, nreq, accounts, otps, sessions, registered, payouts>>

\* recipient_wallet = Wallet.objects.select_for_update().get(user=recipient_user)
TVLockRecipient(p) ==
    LET r == proc[p] IN
    /\ r.pc = "tv_rlock"
    /\ CanWrite(p, r.rcp)
    /\ lock' = [lock EXCEPT ![r.rcp] = p]
    /\ Set(p, [r EXCEPT !.pc = "tv_finish", !.rbal = ReadBalance(p, r.rcp)])
    /\ UNCHANGED <<balance, reserved, txns, clock, nreq, accounts, otps, sessions, registered, payouts>>

\* wallet.balance -= amount; wallet.save(update_fields=['balance'])
TVDebit(r) ==
    [r.wb EXCEPT ![r.usr] = r.lbal - r.amt]
\* recipient_wallet.balance += amount; recipient_wallet.save(...); nothing
\* is credited on the external branch
TVCredit(r, wb) ==
    IF r.rcp \in Users THEN [wb EXCEPT ![r.rcp] = r.rbal + r.amt] ELSE wb

\* debit, credit, status COMPLETED, audit log, notification, and the end of
\* the atomic block, which publishes all of it at once
TVFinish(p) ==
    LET r == proc[p]
        wb == TVCredit(r, TVDebit(r))
        bal == CommitBalance(wb) IN
    /\ r.pc = "tv_finish"
    /\ balance' = bal
    /\ txns' = CommitTxns(p, [txns EXCEPT ![r.tid].status = "completed",
                                          ![r.tid].by = "tv",
                                          ![r.tid].net = 0 - r.amt])
    /\ lock' = Unlock(p)
    /\ Set(p, [r EXCEPT !.pc = "done", !.out = "ok", !.postS = bal[r.usr],
                        !.postR = IF r.rcp \in Users THEN bal[r.rcp] ELSE 0])
    /\ UNCHANGED <<reserved, clock, nreq, accounts, otps, sessions, registered, payouts>>

TransferStep(p) ==
    \/ TVStart(p)
    \/ TVLock(p)
    \/ TVCreate(p)
    \/ TVLockRecipient(p)
    \/ TVFinish(p)

NextTransfer ==
    \/ \E p \in Procs : TransferStep(p) \/ Return(p)
    \/ Tick

SpecTransfer ==
    Init /\ [][NextTransfer]_vars

\* ---- PaymentService (wallets/services/payment_service.py) ----
\* _generate_reference: prefix plus eight hex digits of a fresh uuid4
GeneratedReference(t) ==
    <<"UID", t, "">>
\* a reference that names no transaction
UnknownRef ==
    <<"UNK", 0, "">>
\* the references a client or the provider can present
KnownRefs ==
    {txns[t].ref : t \in {i \in TxnIds : txns[i] # NoTxn /\ txns[i].owner = 0}}
RowOf(p, ref) ==
    {t \in Visible(p) : txns[t].ref = ref}

\* initialize_payment: the transaction types the caller may name
InitTypes ==
    {"deposit", "transfer"}
\* what gateway.initialize_payment can answer: an exception, a result that
\* carries data.reference, a result that does not
InitAnswers ==
    {"raise", "ok_ref", "ok"}

\* initialize_payment up to Transaction.objects.create inside the atomic block
IPStart(p) ==
    /\ proc[p].pc = "idle"
    /\ Accept
    /\ \E u \in Users, a \in Amounts, ty \in InitTypes :
        LET t == NextId IN
        /\ txns' = [txns EXCEPT ![t] =
                NewTxn(u, a, ty, "pending", GeneratedReference(t), p, "ip")]
        /\ Set(p, [IdleProc EXCEPT !.pc = "ip_gateway", !.op = "initialize_payment",
                       !.usr = u, !.amt = a, !.ty = ty, !.tid = t])
    /\ UNCHANGED <<balance, reserved, lock, clock, accounts, otps, sessions, registered, payouts>>

\* the except branch of initialize_payment: status FAILED, metadata['error']
MarkFailed(tx, t) ==
    [tx EXCEPT ![t].status = "failed", ![t].err = TRUE]

\* an initialize_payment that commits the row as failed whatever the answer
IPCommitFailed(p, g) ==
    CommitTxns(p, MarkFailed(txns, proc[p].tid))

\* how the atomic block of initialize_payment ends for each gateway answer.
\* transaction.save(update_fields=['gateway_reference']) names no field of the
\* model and raises ValueError; every exception is caught, the row is marked
\* failed, and PaymentError leaves the atomic block, which rolls it back.
IPOutcome(p, g) ==
    IF g = "ok"
    THEN CommitTxns(p, txns)
    ELSE RollbackTxns(p, MarkFailed(txns, proc[p].tid))

\* self.gateway.initialize_payment(...) and the rest of the atomic block
IPGateway(p) ==
    LET r == proc[p] IN
    /\ r.pc = "ip_gateway"
    /\ \E g \in InitAnswers :
        /\ txns' = IPOutcome(p, g)
        /\ Set(p, [r EXCEPT !.pc = "done", !.gw = g,
                            !.out = IF g = "ok" THEN "ok" ELSE "PaymentError"])
    /\ UNCHANGED <<balance, reserved, lock, clock, nreq, accounts, otps, sessions, registered, payouts>>

\* what gateway.verify_payment can answer: an exception, status false, or
\* status true with data.status successful, failed or anything else
VerifyAnswers ==
    {"raise", "error", "successful", "failed", "pending"}

\* a verify_payment without the short cut for completed transactions
NeverCompleted(t) ==
    FALSE

\* "Skip if already completed"
AlreadyCompleted(t) ==
    txns[t].status = "completed"

\* verify_payment (called by PaymentVerificationView.get and by
\* PaymentWebhookView.post) up to the already-completed short cut; the
\* select_for_update runs outside any atomic block
VPStart(p) ==
    /\ proc[p].pc = "idle"
    /\ Accept
    /\ \E ref \in KnownRefs \cup {UnknownRef} :
        LET r == [IdleProc EXCEPT !.op = "verify_payment", !.ref = ref]
            found == RowOf(p, ref) IN
        IF found = {}
        THEN Set(p, [r EXCEPT !.pc = "done", !.out = "PaymentError"])
        ELSE \E t \in found :
                IF AlreadyCompleted(t)
                THEN Set(p, [r EXCEPT !.pc = "done", !.out = "completed", !.tid = t,
                                      !.lst = txns[t].status])
                ELSE Set(p, [r EXCEPT !.pc = "vp_gateway", !.tid = t,
                                      !.lst = txns[t].status,
                                      !.usr = txns[t].wallet, !.amt = txns[t].amount,
                                      !.ty = txns[t].type])
    /\ UNCHANGED <<balance, reserved, txns, lock, clock, accounts, otps, sessions, registered, payouts>>

\* self.gateway.verify_payment(reference) and the first statement after it
VPGateway(p) ==
    LET r == proc[p] IN
    /\ r.pc = "vp_gateway"
    /\ \E g \in VerifyAnswers :
        CASE g = "raise" ->
                /\ Set(p, [r EXCEPT !.pc = "done", !.gw = g, !.out = "PaymentError"])
                /\ UNCHANGED txns
          [] g = "pending" ->
                /\ Set(p, [r EXCEPT !.pc = "done", !.gw = g, !.out = "pending"])
                /\ UNCHANGED txns
          [] g \in {"error", "failed"} ->
                /\ txns' = [txns EXCEPT ![r.tid].status = "failed",
                                        ![r.tid].err = (@ \/ g = "error"),
                                        ![r.tid].by = "vp"]
                /\ IF r.ty = "transfer"
                   THEN Set(p, [r EXCEPT !.pc = "vp_wread", !.gw = g])
                   ELSE Set(p, [r EXCEPT !.pc = "done", !.gw = g, !.out = "failed"])
          [] g = "successful" ->
                IF r.ty = "deposit"
                THEN /\ Set(p, [r EXCEPT !.pc = "vp_wwrite", !.gw = g,
                                         !.lbal = balance[r.usr]])
                     /\ UNCHANGED txns
                ELSE /\ txns' = [txns EXCEPT ![r.tid].status = "completed",
                                             ![r.tid].by = "vp"]
                     /\ Set(p, [r EXCEPT !.pc = "done", !.gw = g, !.out = "completed"])
    /\ UNCHANGED <<balance, reserved, lock, clock, nreq, accounts, otps, sessions, registered, payouts>>

\* transaction.wallet: the wallet row is fetched for the refund
VPReadWallet(p) ==
    LET r == proc[p] IN
    /\ r.pc = "vp_wread"
    /\ Set(p, [r EXCEPT !.pc = "vp_wwrite", !.lbal = balance[r.usr]])
    /\ UNCHANGED <<balance, reserved, txns, lock, clock, nreq, accounts, otps, sessions, registered, payouts>>

\* transaction.wallet.balance += transaction.amount; wallet.save(['balance'])
VPWriteWallet(p) ==
    LET r == proc[p] IN
    /\ r.pc = "vp_wwrite"
    /\ CanWrite(p, r.usr)
    /\ balance' = [balance EXCEPT ![r.usr] = r.lbal + r.amt]
    /\ txns' = [txns EXCEPT ![r.tid].net = @ + (r.lbal + r.amt - balance[r.usr])]
    /\ IF r.gw = "successful"
       THEN Set(p, [r EXCEPT !.pc = "vp_save"])
       ELSE Set(p, [r EXCEPT !.pc = "done", !.out = "failed"])
    /\ UNCHANGED <<reserved, lock, clock, nreq, accounts, otps, sessions, registered, payouts>>

\* transaction.save(update_fields=['status', 'metadata']) of a credited deposit
VPSaveCompleted(p) ==
    LET r == proc[p] IN
    /\ r.pc = "vp_save"
    /\ txns' = [txns EXCEPT ![r.tid].status = "completed", ![r.tid].by = "vp"]
    /\ Set(p, [r EXCEPT !.pc = "done", !.out = "completed"])
    /\ UNCHANGED <<balance, reserved, lock, clock, nreq, accounts, otps, sessions, registered, payouts>>

\* what gateway.transfer_funds can answer: an exception, data.status
\* successful, or anything else (queued)
TransferAnswers ==
    {"raise", "successful", "pending"}

\* the amounts a caller of the service can pass: transfer_funds takes any
\* Decimal, and Transaction.objects.create runs no validator
ServiceAmounts ==
    (0 - 1)..MaxAmount

\* transfer_funds up to the balance check; the select_for_update runs outside
\* any atomic block
TFStart(p) ==
    /\ proc[p].pc = "idle"
    /\ Accept
    /\ \E u \in Users, a \in ServiceAmounts :
        LET r == [IdleProc EXCEPT !.op = "transfer_funds", !.usr = u, !.amt = a,
                                  !.lbal = balance[u], !.lres = reserved[u]] IN
        IF InsufficientBalance(u, a)
        THEN Set(p, [r EXCEPT !.pc = "done", !.out = "InsufficientFunds"])
        ELSE Set(p, [r EXCEPT !.pc = "tf_debit"])
    /\ UNCHANGED <<balance, reserved, txns, lock, clock, accounts, otps, sessions, registered, payouts>>

\* a transfer_funds that leaves the balance as it was
NotDebited(b, a) ==
    b

\* wallet.balance -= amount
Debited(b, a) ==
    b - a

\* an atomic block whose writes outlive the exception
KeptWrites(wb) ==
    CommitBalance(wb)

\* the wallet balances once an exception has left the atomic block: the
\* block's writes are discarded
AfterRollback(wb) ==
    balance

\* inside the atomic block: Transaction.objects.create, then
\* wallet.balance -= amount; wallet.save(update_fields=['balance'])
TFDebit(p) ==
    LET r == proc[p]
        t == NextId IN
    /\ r.pc = "tf_debit"
    /\ CanWrite(p, r.usr)
    /\ lock' = [lock EXCEPT ![r.usr] = p]
    /\ txns' = [txns EXCEPT ![t] =
            [NewTxn(r.usr, r.amt, "transfer", "pending", GeneratedReference(t), p, "tf")
                EXCEPT !.net = 0 - r.amt]]
    /\ Set(p, [r EXCEPT !.pc = "tf_gateway", !.tid = t,
                        !.wb = [r.wb EXCEPT ![r.usr] = Debited(r.lbal, r.amt)]])
    /\ UNCHANGED <<balance, reserved, clock, nreq, accounts, otps, sessions, registered, payouts>>

\* self.gateway.transfer_funds(...) and the rest of the atomic block.  On an
\* exception the row is marked failed and the balance refunded, and then
\* PaymentError leaves the atomic block, which rolls all of it back.
TFGateway(p) ==
    LET r == proc[p] IN
    /\ r.pc = "tf_gateway"
    /\ \E g \in TransferAnswers :
        IF g = "raise"
        THEN /\ txns' = RollbackTxns(p, MarkFailed(txns, r.tid))
             /\ balance' = AfterRollback(r.wb)
             /\ Set(p, [r EXCEPT !.pc = "done", !.gw = g, !.out = "PaymentError",
                                 !.wb = NoWrites])
        ELSE /\ txns' = CommitTxns(p,
                    IF g = "successful"
                    THEN [txns EXCEPT ![r.tid].status = "completed", ![r.tid].by = "tf"]
                    ELSE txns)
             /\ balance' = CommitBalance(r.wb)
             /\ Set(p, [r EXCEPT !.pc = "done", !.gw = g, !.out = "ok", !.wb = NoWrites])
    /\ lock' = Unlock(p)
    /\ UNCHANGED <<reserved, clock, nreq, accounts, otps, sessions, registered, payouts>>

\* ---- paystack_webhook (wallets/views_paystack.py) ----
\* get_payment_gateway: the names gateway_map knows
GatewayNames ==
    {"mock"}

\* paystack_webhook asks get_payment_gateway for 'paystack' before it looks at
\* the event; a name gateway_map does not hold raises PaymentGatewayError, which
\* the view's last except clause turns into a 500 response
paystack_webhook(p) ==
    /\ proc[p].pc = "idle"
    /\ Accept
    /\ \E ref \in KnownRefs \cup {UnknownRef} :
        Set(p, [IdleProc EXCEPT !.pc = "done", !.op = "paystack_webhook", !.ref = ref,
                    !.out = IF "paystack" \in GatewayNames THEN "ok" ELSE "500"])
    /\ UNCHANGED <<balance, reserved, txns, lock, clock, accounts, otps, sessions, registered, payouts>>

\* the statements of a request that is under way
PaymentRun(p) ==
    \/ IPGateway(p)
    \/ VPGateway(p)
    \/ VPReadWallet(p)
    \/ VPWriteWallet(p)
    \/ VPSaveCompleted(p)
    \/ TFDebit(p)
    \/ TFGateway(p)

\* no other request is under way or waiting to be answered
Alone(p) ==
    \A q \in Procs \ {p} : proc[q].pc = "idle"

\* the entry points when the requests arrive one after the other
SerialInitialize(p) ==
    Alone(p) /\ IPStart(p)
SerialVerify(p) ==
    Alone(p) /\ VPStart(p)
SerialTransfer(p) ==
    Alone(p) /\ TFStart(p)
SerialWebhook(p) ==
    Alone(p) /\ paystack_webhook(p)

Next ==
    \E p \in Procs :
        \/ SerialInitialize(p)
        \/ SerialVerify(p)
        \/ SerialTransfer(p)
        \/ SerialWebhook(p)
        \/ PaymentRun(p)
        \/ Return(p)

\* both transfer entry points, requests overlapping
NextTransfers ==
    \/ \E p \in Procs :
            \/ TransferStep(p)
            \/ TFStart(p)
            \/ TFDebit(p)
            \/ TFGateway(p)
            \/ Return(p)
    \/ Tick

SpecTransfers ==
    Init /\ [][NextTransfers]_vars

\* ---- user creation and the wallet of a new user ----
\* UserManager.create_user and the post_save receivers of users/signals.py:
\* create_user_profile inserts the UserProfile; no receiver inserts a Wallet
create_user(p) ==
    /\ proc[p].pc = "idle"
    /\ Accept
    /\ \E u \in NewUsers :
        /\ ~accounts[u].created
        /\ accounts' = [accounts EXCEPT ![u].created = TRUE, ![u].profile = TRUE]
        /\ Set(p, [IdleProc EXCEPT !.pc = "done", !.op = "create_user", !.usr = u,
                                   !.out = "ok"])
    /\ UNCHANGED <<balance, reserved, txns, lock, clock, otps, sessions, registered, payouts>>

\* WalletView.get_object, first half of Wallet.objects.get_or_create: the get
WVGet(p) ==
    /\ proc[p].pc = "idle"
    /\ Accept
    /\ \E u \in NewUsers :
        /\ accounts[u].created
        /\ LET r == [IdleProc EXCEPT !.op = "wallet_view", !.usr = u] IN
           IF accounts[u].wallets > 0
           THEN Set(p, [r EXCEPT !.pc = "done", !.out = "ok"])
           ELSE Set(p, [r EXCEPT !.pc = "wv_create"])
    /\ UNCHANGED <<balance, reserved, txns, lock, clock, accounts, otps, sessions, registered, payouts>>

\* second half of get_or_create: the insert; Wallet.user is a OneToOneField,
\* so a second row for the user raises IntegrityError, which get_or_create
\* answers by fetching the row that is there
WVCreate(p) ==
    LET r == proc[p] IN
    /\ r.pc = "wv_create"
    /\ accounts' = [accounts EXCEPT ![r.usr].wallets =
                        IF @ = 0 THEN 1 ELSE @]
    /\ Set(p, [r EXCEPT !.pc = "done", !.out = "ok"])
    /\ UNCHANGED <<balance, reserved, txns, lock, clock, nreq, otps, sessions, registered, payouts>>

\* DepositFundsView.post up to Wallet.objects.get(user=request.user)
WalletGet(p) ==
    /\ proc[p].pc = "idle"
    /\ Accept
    /\ \E u \in NewUsers :
        /\ accounts[u].created
        /\ Set(p, [IdleProc EXCEPT !.pc = "done", !.op = "deposit_view", !.usr = u,
                       !.out = IF accounts[u].wallets > 0 THEN "ok" ELSE "DoesNotExist"])
    /\ UNCHANGED <<balance, reserved, txns, lock, clock, accounts, otps, sessions, registered, payouts>>

NextAccounts ==
    \E p \in Procs :
        \/ create_user(p)
        \/ WVGet(p)
        \/ WVCreate(p)
        \/ WalletGet(p)
        \/ Return(p)

SpecAccounts ==
    Init /\ [][NextAccounts]_vars

\* the payment service and the webhooks, requests overlapping
NextPayments ==
    \E p \in Procs :
        \/ IPStart(p)
        \/ VPStart(p)
        \/ TFStart(p)
        \/ paystack_webhook(p)
        \/ PaymentRun(p)
        \/ Return(p)

SpecPayments ==
    Init /\ [][NextPayments]_vars

\* the payment service and the webhooks, one request at a time
Spec ==
    Init /\ [][Next]_vars

\* Wallet.available_balance
available_balance(u) ==
    balance[u] - reserved[u]

\* ---- claims ----

\* C1: in every reachable state, under any interleaving of requests, every
\* wallet satisfies balance - reserved_balance >= 0.
C1_AvailableNeverNegative ==
    \A u \in Users : available_balance(u) >= 0

\* C2: every internal transfer that ends completed has taken exactly amount
\* from the sender's balance and added exactly amount to the recipient's
\* balance, so the two balances together are unchanged.
C2_InternalTransferConserves ==
    \A p \in Procs :
        LET r == proc[p] IN
        (r.pc = "done" /\ r.op = "transfer" /\ r.out = "ok" /\ r.rcp \in Users) =>
            /\ txns[r.tid].status = "completed"
            /\ r.postS = r.lbal - r.amt
            /\ r.postR = r.rbal + r.amt

\* the processes whose request ended with the given outcome
EndedWith(o) ==
    {p \in Procs : proc[p].pc = "done" /\ proc[p].out = o}

\* every process has finished a transfer of amount a from u1 to u2 with the
\* right PIN, and nothing else was requested
AllTransferred(a) ==
    /\ nreq = NumProcs
    /\ \A p \in Procs :
        /\ proc[p].pc = "done"
        /\ proc[p].op = "transfer"
        /\ proc[p].usr = "u1"
        /\ proc[p].rcp = "u2"
        /\ proc[p].amt = a
        /\ proc[p].out # "InvalidPin"

\* C3: N transfers of amount A issued concurrently by one user against a
\* balance of exactly N*A all succeed, leave the sender at 0, credit the
\* recipient N*A and create N transfer rows; against a balance of (N-1)*A
\* exactly one ends with insufficient funds and N-1 succeed.
C3_ConcurrentTransfersAllSucceed ==
    \A a \in Amounts :
        AllTransferred(a) =>
            /\ (NumProcs * a = InitBalance) =>
                    /\ EndedWith("ok") = Procs
                    /\ balance["u1"] = 0
                    /\ balance["u2"] = InitBalance + NumProcs * a
                    /\ Cardinality({t \in TxnIds : txns[t] # NoTxn}) = NumProcs
            /\ ((NumProcs - 1) * a = InitBalance) =>
                    /\ Cardinality(EndedWith("Insufficient")) = 1
                    /\ Cardinality(EndedWith("ok")) = NumProcs - 1

\* the committed rows of the ledger
Committed ==
    {t \in TxnIds : txns[t] # NoTxn /\ txns[t].owner = 0}

\* what the committed rows of wallet u have added to its balance, all told
RECURSIVE NetOf(_, _)
NetOf(u, ts) ==
    IF ts = {} THEN 0
    ELSE LET t == CHOOSE x \in ts : TRUE IN
         (IF txns[t].wallet = u THEN txns[t].net ELSE 0) + NetOf(u, ts \ {t})

\* process p has finished operation o
Finished(p, o) ==
    proc[p].pc = "done" /\ proc[p].op = o

\* C4: verify_payment called for a reference whose transaction is already
\* completed answers completed at once, without asking the gateway, and
\* leaves balances and transactions as they were; a completed deposit has
\* been credited exactly once.
C4_VerifyCompletedIdempotent ==
    /\ [](\A t \in Committed :
            (txns[t].type = "deposit" /\ txns[t].status = "completed") =>
                txns[t].net = txns[t].amount)
    /\ [][\A p \in Procs :
            (/\ proc[p].pc = "idle"
             /\ proc'[p].op = "verify_payment"
             /\ \E t \in Committed :
                    txns[t].ref = proc'[p].ref /\ txns[t].status = "completed") =>
                /\ proc'[p].pc = "done"
                /\ proc'[p].out = "completed"
                /\ proc'[p].gw = ""
                /\ balance' = balance
                /\ txns' = txns]_vars

\* a verify_payment that found its deposit completed and credited
C4_Witness ==
    \E p \in Procs :
        /\ Finished(p, "verify_payment")
        /\ proc[p].lst = "completed"
        /\ proc[p].out = "completed"
        /\ txns[proc[p].tid].type = "deposit"
        /\ txns[proc[p].tid].net = txns[proc[p].tid].amount

\* C5: however often the charge.success event of one deposit reference is
\* delivered, the wallet is credited by the deposit amount at most once.
C5_WebhookCreditsAtMostOnce ==
    \A t \in Committed :
        txns[t].type = "deposit" => txns[t].net <= txns[t].amount

\* C6: when the gateway call of transfer_funds raises after the debit, the
\* sender's balance at return is the balance from before the transfer.
C6_RaiseRestoresBalance ==
    \A p \in Procs :
        (Finished(p, "transfer_funds") /\ proc[p].gw = "raise") =>
            balance[proc[p].usr] = proc[p].lbal

\* a transfer_funds whose gateway call raised
C6_Witness ==
    \E p \in Procs :
        /\ Finished(p, "transfer_funds")
        /\ proc[p].gw = "raise"
        /\ proc[p].out = "PaymentError"
        /\ proc[p].amt > 0

\* C7: when the gateway call of transfer_funds raises, the transfer's row is
\* in the ledger afterwards with status failed and the error in its metadata.
C7_RaiseLeavesFailedRecord ==
    \A p \in Procs :
        (Finished(p, "transfer_funds") /\ proc[p].gw = "raise") =>
            \E t \in Committed :
                /\ txns[t].src = "tf"
                /\ txns[t].wallet = proc[p].usr
                /\ txns[t].status = "failed"
                /\ txns[t].err

\* C8: a transfer the gateway reports as pending has debited the sender by
\* amount and stays pending; once a later verify_payment hears successful,
\* the row is completed and the sender has been debited exactly once.
C8_PendingTransferDebitedOnce ==
    \A p \in Procs :
        LET r == proc[p] IN
        /\ (Finished(p, "transfer_funds") /\ r.gw = "pending") =>
                /\ txns[r.tid].status = "pending"
                /\ balance[r.usr] = r.lbal - r.amt
        /\ (/\ Finished(p, "verify_payment")
            /\ r.gw = "successful"
            /\ r.lst = "pending"
            /\ txns[r.tid].src = "tf") =>
                /\ txns[r.tid].status = "completed"
                /\ txns[r.tid].net = 0 - r.amt
                /\ balance[r.usr] = InitBalance + NetOf(r.usr, Committed)

\* a pending transfer that a later verify_payment completed
C8_Witness ==
    \E p \in Procs :
        /\ Finished(p, "verify_payment")
        /\ proc[p].gw = "successful"
        /\ proc[p].lst = "pending"
        /\ txns[proc[p].tid].src = "tf"
        /\ txns[proc[p].tid].status = "completed"
        /\ balance[proc[p].usr] = InitBalance - proc[p].amt

\* C9: a transfer that was debited and ends failed has been credited back
\* exactly amount, however often verify_payment heard of the failure: its
\* net effect on the balance is zero.
C9_FailedTransferRefundedOnce ==
    \A t \in Committed :
        (txns[t].src = "tf" /\ txns[t].status = "failed") => txns[t].net = 0

\* the statuses a transaction does not leave
Terminal ==
    {"completed", "failed", "cancelled"}

\* C10: once a transaction is completed, failed or cancelled, no later
\* operation changes its status.
C10_TerminalAbsorbing ==
    [][\A t \in Committed :
            txns[t].status \in Terminal => txns'[t].status = txns[t].status]_vars

\* C11: a transfer request whose PIN does not match the stored PIN is
\* rejected at once and leaves every wallet and the transaction table as
\* they were; no transaction row is created for it.
C11_PinMismatchChangesNothing ==
    /\ [](\A p \in Procs :
            (proc[p].op = "transfer" /\ proc[p].pin # StoredPin) =>
                /\ proc[p].pc = "done"
                /\ proc[p].out = "InvalidPin"
                /\ proc[p].tid = 0)
    /\ [][\A p \in Procs :
            (proc[p].pc = "idle" /\ proc'[p].op = "transfer" /\ proc'[p].pin # StoredPin) =>
                /\ balance' = balance
                /\ reserved' = reserved
                /\ txns' = txns
                /\ lock' = lock]_vars

\* a transfer request with a wrong PIN has been answered while a transfer
\* with the right PIN has gone through
C11_Witness ==
    /\ \E p \in Procs : Finished(p, "transfer") /\ proc[p].pin # StoredPin
    /\ \E t \in Committed : txns[t].src = "tv"

\* C12: a transfer whose amount exceeds the sender's available balance is
\* rejected with an insufficient-funds error, changes no balance and creates
\* no transaction, in the transfer view and in transfer_funds alike.
C12_InsufficientTransferRejected ==
    /\ [](\A p \in Procs :
            (proc[p].pc = "done" /\ proc[p].out \in {"Insufficient", "InsufficientFunds"}) =>
                proc[p].tid = 0)
    /\ [][\A p \in Procs :
            LET r == proc'[p] IN
            (/\ \/ proc[p].pc = "tv_lock" /\ r.pc # "tv_lock"
                \/ proc[p].pc = "idle" /\ r.op = "transfer_funds"
             /\ balance[r.usr] - reserved[r.usr] < r.amt) =>
                /\ r.pc = "done"
                /\ r.out = IF r.op = "transfer" THEN "Insufficient" ELSE "InsufficientFunds"
                /\ balance' = balance
                /\ reserved' = reserved
                /\ txns' = txns]_vars

\* both entry points have turned down a transfer for lack of funds
C12_Witness ==
    /\ \E p \in Procs : Finished(p, "transfer") /\ proc[p].out = "Insufficient"
    /\ \E p \in Procs : Finished(p, "transfer_funds") /\ proc[p].out = "InsufficientFunds"

\* C13: a transfer with amount <= 0 is rejected before any wallet is written
\* and before any transaction is created, on every transfer entry point.
C13_NonPositiveAmountRejected ==
    \A p \in Procs :
        (proc[p].op \in {"transfer", "transfer_funds"} /\ proc[p].amt <= 0) =>
            /\ proc[p].pc = "done"
            /\ proc[p].out # "ok"
            /\ proc[p].tid = 0

\* C14: however two or more verify_payment calls on one pending deposit
\* interleave, when the gateway reports successful the transaction is no
\* longer pending and the wallet has been credited by amount exactly once
\* (only a verify_payment that heard successful writes the wallet of a
\* deposit, so any other credit comes from a second such call).
C14_ConcurrentVerifyCreditsOnce ==
    \A p \in Procs :
        (/\ Finished(p, "verify_payment")
         /\ proc[p].gw = "successful"
         /\ proc[p].ty = "deposit"
         /\ proc[p].lst = "pending") =>
            /\ txns[proc[p].tid].status # "pending"
            /\ txns[proc[p].tid].net = txns[proc[p].tid].amount

\* C15: every user has exactly one wallet, from the moment the user has been
\* created and before any wallet endpoint is called, and never two.
C15_OneWalletPerUser ==
    \A u \in NewUsers :
        accounts[u].created => accounts[u].wallets = 1

\* C16: when the gateway raises during initialize_payment, the caller gets a
\* PaymentError and the transaction created for the payment stays in the
\* ledger with status failed and the error text in its metadata.
C16_InitRaiseLeavesFailedRecord ==
    \A p \in Procs :
        (Finished(p, "initialize_payment") /\ proc[p].gw = "raise") =>
            /\ proc[p].out = "PaymentError"
            /\ \E t \in Committed :
                    /\ txns[t].src = "ip"
                    /\ txns[t].wallet = proc[p].usr
                    /\ txns[t].status = "failed"
                    /\ txns[t].err

WalletChecked(p) ==
    proc[p].pc = "w_exec" /\ proc'[p].pc # "w_exec"

\* C18: deposit, withdraw and reserve_funds called with amount <= 0, and
\* withdraw and reserve_funds called with more than the available balance,
\* fail with an error and leave balance, reserved balance and the
\* transactions as they were.
C18_WalletRejectsBadAmount ==
    [][\A p \in Procs :
        LET r == proc[p] IN
        (/\ WalletChecked(p)
         /\ r.op \in {"deposit", "withdraw", "reserve_funds"}
         /\ \/ r.amt <= 0
            \/ r.op # "deposit" /\ r.amt > r.lbal - r.lres) =>
            /\ proc'[p].pc = "done"
            /\ proc'[p].out \in {"ValueError", "Insufficient"}
            /\ balance' = balance
            /\ reserved' = reserved
            /\ txns' = txns]_vars

\* a deposit of nothing and a withdrawal beyond the available balance have
\* both been refused
C18_Witness ==
    /\ \E p \in Procs : Finished(p, "deposit") /\ proc[p].out = "ValueError"
    /\ \E p \in Procs : Finished(p, "withdraw") /\ proc[p].out = "Insufficient"

\* C19: release_reserved_funds and complete_reservation called with
\* amount <= 0 or with more than the reserved balance fail with an error and
\* change neither the wallet nor any transaction; the reserved balance is
\* never negative.
C19_ReleaseRejectsBadAmount ==
    /\ [](\A u \in Users : reserved[u] >= 0)
    /\ [][\A p \in Procs :
            LET r == proc[p] IN
            (/\ WalletChecked(p)
             /\ r.op \in {"release_reserved_funds", "complete_reservation"}
             /\ (r.amt <= 0 \/ r.amt > r.lres)) =>
                /\ proc'[p].pc = "done"
                /\ proc'[p].out = "ValueError"
                /\ balance' = balance
                /\ reserved' = reserved
                /\ txns' = txns]_vars

\* a release beyond the reserved balance has been refused and a release
\* within it has gone through
C19_Witness ==
    /\ \E p \in Procs :
            /\ Finished(p, "release_reserved_funds")
            /\ proc[p].out = "ValueError"
            /\ proc[p].amt > 0
    /\ \E p \in Procs : Finished(p, "complete_reservation") /\ proc[p].out = "ok"

\* the wallet whose row lock process p is waiting for, if it waits for one
WaitsFor(p) ==
    CASE proc[p].pc = "tv_lock" -> {proc[p].usr}
      [] proc[p].pc = "tv_rlock" -> {proc[p].rcp}
      [] OTHER -> {}

\* p waits for a lock that q holds
BlockedBy(p, q) ==
    \E u \in WaitsFor(p) : lock[u] = q

\* C20: two internal transfers running in opposite directions between the
\* same two wallets never deadlock: no two requests each wait for a wallet
\* row lock the other one holds.
C20_NoDeadlock ==
    \A p, q \in Procs :
        ~(p # q /\ BlockedBy(p, q) /\ BlockedBy(q, p))

\* ---- views.TransferFundsView.post when a statement of the try block raises ----
\* the statements of the try block, in order; nothing is credited, looked up
\* or notified on the external branch
RaisePoints(r) ==
    IF r.pc = "tv_rlock" THEN {"lookup"}
    ELSE IF r.rcp \in Users THEN {"debit", "credit", "status", "audit", "notify"}
    ELSE {"debit", "status", "audit"}
\* the wallet writes that were made before the statement k raised
WritesBefore(r, k) ==
    CASE k \in {"lookup", "debit"} -> r.wb
      [] k = "credit" -> TVDebit(r)
      [] OTHER -> TVCredit(r, TVDebit(r))

\* a statement of the try block raises; except Exception marks the row failed,
\* writes the audit entry and returns the 500 response, which leaves the atomic
\* block normally: whatever was written before the exception is committed.
\* When the handler's own save or audit write raises too (again), the exception
\* leaves the atomic block and everything is rolled back.
TVRaise(p) ==
    LET r == proc[p] IN
    /\ r.pc \in {"tv_rlock", "tv_finish"}
    /\ \E k \in RaisePoints(r), again \in BOOLEAN :
        LET bal == CommitBalance(WritesBefore(r, k)) IN
        IF again
        THEN /\ txns' = RollbackTxns(p, txns)
             /\ Set(p, [r EXCEPT !.pc = "done", !.out = "Error", !.gw = k])
             /\ UNCHANGED balance
        ELSE /\ balance' = bal
             /\ txns' = CommitTxns(p, [txns EXCEPT ![r.tid].status = "failed",
                                                   ![r.tid].err = TRUE,
                                                   ![r.tid].by = "tv",
                                                   ![r.tid].net = bal[r.usr] - balance[r.usr]])
             /\ Set(p, [r EXCEPT !.pc = "done", !.out = "TransferFailed", !.gw = k,
                                 !.postS = bal[r.usr],
                                 !.postR = IF r.rcp \in Users THEN bal[r.rcp] ELSE 0])
    /\ lock' = Unlock(p)
    /\ UNCHANGED <<reserved, clock, nreq, accounts, otps, sessions, registered, payouts>>

\* the transfer requests arrive one after the other
SerialTransferView(p) ==
    Alone(p) /\ TVStart(p)

NextTransferFaults ==
    \/ \E p \in Procs :
            \/ SerialTransferView(p)
            \/ TVLock(p)
            \/ TVCreate(p)
            \/ TVLockRecipient(p)
            \/ TVFinish(p)
            \/ TVRaise(p)
            \/ Return(p)
    \/ Tick

SpecTransferFaults ==
    Init /\ [][NextTransferFaults]_vars

\* C21: when a step of the transfer raises after the pending transaction was
\* created, what the request commits is consistent: a transaction it leaves
\* failed comes with every wallet balance as it was before the transfer, and
\* a transaction it leaves completed with the debit applied.
C21_RaiseLeavesConsistent ==
    [][\A p \in Procs :
        (proc[p].pc \in {"tv_rlock", "tv_finish"} /\ proc'[p].pc = "done"
            /\ txns'[proc[p].tid] # NoTxn)
        => /\ txns'[proc[p].tid].status \in {"completed", "failed"}
           /\ (txns'[proc[p].tid].status = "failed" => balance' = balance)
           /\ ((txns'[proc[p].tid].status = "completed" /\ proc[p].rcp # proc[p].usr)
                => balance'[proc[p].usr] = balance[proc[p].usr] - proc[p].amt)]_vars

\* the wallet row of process p's call as it was when the call began: what the
\* instance holds now, less what the method itself added
LoadedBalance(p) ==
    proc[p].lbal - WalletTxnNet(proc[p].op, proc[p].amt)
LoadedReserved(p) ==
    proc[p].lres - (IF proc[p].op = "reserve_funds" THEN proc[p].amt ELSE 0)

\* C22: deposit, withdraw and reserve_funds are atomic with their transaction
\* record: when the insert of the transaction row fails (the reference is
\* already taken), the call leaves neither balance nor reserved_balance
\* changed, so the wallet row is as the call loaded it.
C22_WalletOpAtomicWithRecord ==
    [][\A p \in Procs :
        (proc[p].pc = "w_txn" /\ proc'[p].pc = "done" /\ txns' = txns)
        => /\ balance'[proc[p].usr] = LoadedBalance(p)
           /\ reserved'[proc[p].usr] = LoadedReserved(p)]_vars

\* ---- views.WithdrawFundsView.post (wallets/views.py) ----
\* the PIN check, then Wallet.objects.select_for_update().get(user=request.user)
\* and the balance check; the view opens no atomic block, so the select holds
\* no lock once it has returned
WFStart(p) ==
    /\ proc[p].pc = "idle"
    /\ Accept
    /\ \E u \in Users, a \in Amounts, pin \in Pins :
        LET r == [IdleProc EXCEPT !.op = "withdraw_view", !.usr = u, !.amt = a, !.pin = pin] IN
        IF ~check_transaction_pin(u, pin)
        THEN Set(p, [r EXCEPT !.pc = "done", !.out = "InvalidPin"])
        ELSE IF InsufficientBalance(u, a)
        THEN Set(p, [r EXCEPT !.pc = "done", !.out = "Insufficient",
                              !.lbal = balance[u], !.lres = reserved[u]])
        ELSE Set(p, [r EXCEPT !.pc = "wf_create",
                              !.lbal = balance[u], !.lres = reserved[u]])
    /\ UNCHANGED <<balance, reserved, txns, lock, clock, accounts, otps, sessions, registered, payouts>>

\* reference = f"WTH-{now:%Y%m%d%H%M%S}-{user.id}"
WithdrawReference(u) ==
    <<"WTH", clock, u>>

\* Transaction.objects.create of the pending withdrawal, before the try block:
\* an IntegrityError on the reference goes out of the view uncaught
WFCreate(p) ==
    LET r == proc[p]
        t == NextId
        ref == WithdrawReference(r.usr) IN
    /\ r.pc = "wf_create"
    /\ IF RefTaken(ref)
       THEN /\ Set(p, [r EXCEPT !.pc = "done", !.out = "IntegrityError"])
            /\ UNCHANGED txns
       ELSE /\ txns' = [txns EXCEPT ![t] =
                    NewTxn(r.usr, r.amt, "withdrawal", "pending", ref, 0, "wf")]
            /\ Set(p, [r EXCEPT !.pc = "wf_debit", !.tid = t])
    /\ UNCHANGED <<balance, reserved, lock, clock, nreq, accounts, otps, sessions, registered, payouts>>

\* wallet.balance -= amount; wallet.save(update_fields=['balance']) on the
\* instance loaded by WFStart, then status COMPLETED and the audit entry
WFDebit(p) ==
    LET r == proc[p] IN
    /\ r.pc = "wf_debit"
    /\ CanWrite(p, r.usr)
    /\ balance' = [balance EXCEPT ![r.usr] = r.lbal - r.amt]
    /\ txns' = [txns EXCEPT ![r.tid].status = "completed",
                            ![r.tid].by = "wf",
                            ![r.tid].net = 0 - r.amt]
    /\ Set(p, [r EXCEPT !.pc = "done", !.out = "ok", !.postS = r.lbal - r.amt])
    /\ UNCHANGED <<reserved, lock, clock, nreq, accounts, otps, sessions, registered, payouts>>

\* the two debiting entry points, requests overlapping
NextDebits ==
    \/ \E p \in Procs :
            \/ TFStart(p)
            \/ TFDebit(p)
            \/ TFGateway(p)
            \/ WFStart(p)
            \/ WFCreate(p)
            \/ WFDebit(p)
            \/ Return(p)
    \/ Tick

SpecDebits ==
    Init /\ [][NextDebits]_vars

\* no request is under way
Quiescent ==
    \A p \in Procs : proc[p].pc \in {"idle", "done"}

\* C23: with transfer_funds calls and withdrawal requests overlapping on one
\* wallet, no debit is lost and none is spent twice: once the requests have
\* finished, every wallet's balance is its opening balance less the debits on
\* record (all of them of positive amounts), and it never goes below zero.
C23_ConcurrentDebitsSerialized ==
    /\ \A u \in Users : balance[u] >= 0
    /\ (Quiescent /\ \A t \in Committed : txns[t].amount > 0)
        => \A u \in Users : balance[u] = InitBalance + NetOf(u, Committed)

\* process p is about to call the gateway and will wait for its answer
AwaitingGateway(p) ==
    proc[p].pc \in {"ip_gateway", "vp_gateway", "tf_gateway"}
\* process p holds the row lock of some wallet
HoldsWalletLock(p) ==
    \E u \in Users : lock[u] = p

\* C24: no gateway call is in flight while a wallet row lock is held: a
\* request that is waiting for the gateway holds the lock of no wallet.
C24_NoGatewayCallUnderLock ==
    \A p \in Procs : AwaitingGateway(p) => ~HoldsWalletLock(p)

\* C25: every transfer gets a reference no other transaction has, so that
\* creating its transaction never fails on the unique constraint of
\* Transaction.reference, also when one user starts several transfers within
\* the same second.
C25_ReferenceNeverCollides ==
    \A p \in Procs :
        proc[p].op = "transfer" => proc[p].out # "IntegrityError"

\* the pending reservations of a on wallet u made under reference ref
PendingReservation(u, a, ref) ==
    {t \in Committed : /\ txns[t].wallet = u /\ txns[t].amount = a
                        /\ txns[t].ref = ref /\ txns[t].type = "reservation"
                        /\ txns[t].status = "pending"}

\* C26: complete_reservation deducts the reserved amount from the wallet:
\* called with the amount and reference of a pending reservation, the save
\* that takes the amount off reserved_balance takes it off balance as well.
C26_CompleteReservationDeducts ==
    [][\A p \in Procs :
        (/\ proc[p].pc = "w_exec" /\ proc[p].op = "complete_reservation"
         /\ PendingReservation(proc[p].usr, proc[p].amt, proc[p].ref) # {}
         /\ proc'[p].pc = "w_find")
        => balance'[proc[p].usr] = balance[proc[p].usr] - proc[p].amt]_vars

\* ---- the Wallet methods called one after the other ----
\* no other call is under way: each has returned to its caller
CallsInTurn(p) ==
    \A q \in Procs \ {p} : proc[q].pc \in {"idle", "done"}
SerialWalletCall(p) ==
    CallsInTurn(p) /\ WalletCall(p)

NextWalletSerial ==
    \E p \in Procs :
        \/ SerialWalletCall(p)
        \/ DepositSave(p)
        \/ WithdrawSave(p)
        \/ ReserveSave(p)
        \/ WalletCreateTxn(p)
        \/ ReservationSave(p)
        \/ ReservationFind(p)
        \/ ReservationMark(p)
        \/ Return(p)

SpecWalletSerial ==
    Init /\ [][NextWalletSerial]_vars

\* reserved_balance as call p loaded it, for a call that ends a reservation
ReleaseLoadedReserved(p) ==
    proc[p].lres + (IF proc[p].pc = "w_exec" THEN 0 ELSE proc[p].amt)

\* call p is release_reserved_funds(a, ref) on the wallet that call q has just
\* left after reserve_funds(a, ref): p loaded the wallet as q saved it
ReleaseFollowsReserve(p, q) ==
    /\ p # q
    /\ Finished(q, "reserve_funds") /\ proc[q].out = "ok"
    /\ proc[p].op = "release_reserved_funds"
    /\ proc[p].usr = proc[q].usr /\ proc[p].amt = proc[q].amt /\ proc[p].ref = proc[q].ref
    /\ proc[p].lbal = proc[q].lbal /\ ReleaseLoadedReserved(p) = proc[q].lres

\* the round trip is complete when p returns: the wallet is as it was before
\* the reservation and the reservation row is cancelled
RoundTripDone(p, q) ==
    /\ proc'[p].out = "ok"
    /\ balance'[proc[p].usr] = LoadedBalance(q)
    /\ reserved'[proc[p].usr] = LoadedReserved(q)
    /\ balance'[proc[p].usr] - reserved'[proc[p].usr] = LoadedBalance(q) - LoadedReserved(q)
    /\ txns'[proc[q].tid].status = "cancelled"

\* C27 as stated: reserve_funds(a, ref) followed by release_reserved_funds(a, ref)
\* is a round trip for every reference, the empty one included: the wallet
\* returns to its values, the reservation ends cancelled, and no other
\* transaction changes.
C27_RoundTripAnyReference ==
    [][\A p, q \in Procs :
        (ReleaseFollowsReserve(p, q) /\ proc[p].pc # "idle")
        => /\ \A t \in TxnIds \ {proc[q].tid} : txns'[t] = txns[t]
           /\ (proc[p].pc # "done" /\ proc'[p].pc = "done") => RoundTripDone(p, q)]_vars

\* C27, amended: reserve_funds(a, ref) followed by release_reserved_funds(a, ref)
\* with a reference that is not empty is a round trip: balance,
\* reserved_balance and available_balance return to their values before the
\* reservation, the reservation ends cancelled, and no other transaction changes.
C27_RoundTripWithReference ==
    [][\A p, q \in Procs :
        (ReleaseFollowsReserve(p, q) /\ proc[p].pc # "idle" /\ proc[p].ref # NoRef)
        => /\ \A t \in TxnIds \ {proc[q].tid} : txns'[t] = txns[t]
           /\ (proc[p].pc # "done" /\ proc'[p].pc = "done") => RoundTripDone(p, q)]_vars

\* a reservation made under a reference has been released under it
C27_Witness ==
    \E p, q \in Procs :
        /\ ReleaseFollowsReserve(p, q) /\ proc[p].ref # NoRef
        /\ proc[p].pc = "done" /\ proc[p].out = "ok"
        /\ txns[proc[q].tid].status = "cancelled"
        /\ reserved[proc[p].usr] = LoadedReserved(q)

\* ---- OTPManager (core/models.py) ----
\* is_used=False, expires_at__gt=timezone.now()
OtpValid(i) ==
    otps[i] # NoOtp /\ ~otps[i].used /\ otps[i].expires > clock
\* the OTP rows of a (phone number, purpose) pair
OtpsOf(ph, pu) ==
    {i \in OtpIds : otps[i] # NoOtp /\ otps[i].phone = ph /\ otps[i].purpose = pu}

\* a create_otp that leaves the earlier OTPs as they are
KeepEarlier(ph, pu) ==
    otps

\* OTP.objects.filter(phone_number, purpose, is_used=False,
\* expires_at__gt=now).update(is_used=True)
Invalidated(ph, pu) ==
    [i \in OtpIds |-> IF i \in OtpsOf(ph, pu) /\ OtpValid(i)
                      THEN [otps[i] EXCEPT !.used = TRUE] ELSE otps[i]]

\* OTPManager.create_otp: invalidate, generate a code, insert the new row
create_otp(p) ==
    /\ proc[p].pc = "idle"
    /\ Accept
    /\ \E i \in OtpIds : otps[i] = NoOtp
    /\ \E ph \in Phones, pu \in Purposes, c \in Codes :
        LET i == CHOOSE j \in OtpIds : otps[j] = NoOtp /\ \A k \in OtpIds : otps[k] = NoOtp => j <= k IN
        /\ otps' = [Invalidated(ph, pu) EXCEPT ![i] =
                        [phone |-> ph, purpose |-> pu, code |-> c,
                         expires |-> clock + OtpLifetime, used |-> FALSE]]
        /\ Set(p, [IdleProc EXCEPT !.pc = "done", !.op = "create_otp", !.usr = ph,
                                   !.ty = pu, !.pin = c, !.tid = i, !.out = "ok"])
    /\ UNCHANGED <<balance, reserved, txns, lock, clock, accounts, sessions, registered, payouts>>

\* the rows OTP.objects.get(phone_number, code, purpose, is_used=False,
\* expires_at__gt=now) selects
MatchingOtps(ph, c, pu) ==
    {i \in OtpsOf(ph, pu) : otps[i].code = c /\ OtpValid(i)}
\* what verify_otp answers: DoesNotExist is turned into False; more than one
\* row makes get raise MultipleObjectsReturned
VerifyAnswer(ph, c, pu) ==
    CASE MatchingOtps(ph, c, pu) = {} -> "False"
      [] Cardinality(MatchingOtps(ph, c, pu)) = 1 -> "True"
      [] OTHER -> "MultipleObjectsReturned"
\* otp.is_used = True; otp.save(update_fields=['is_used'])
OtpsAfterVerify(ph, c, pu) ==
    IF VerifyAnswer(ph, c, pu) = "True"
    THEN [i \in OtpIds |-> IF i \in MatchingOtps(ph, c, pu)
                           THEN [otps[i] EXCEPT !.used = TRUE] ELSE otps[i]]
    ELSE otps
MatchedOtp(ph, c, pu) ==
    IF VerifyAnswer(ph, c, pu) = "True"
    THEN CHOOSE i \in MatchingOtps(ph, c, pu) : TRUE ELSE 0

\* OTPManager.verify_otp
verify_otp(p) ==
    /\ proc[p].pc = "idle"
    /\ Accept
    /\ \E ph \in Phones, pu \in Purposes, c \in Codes :
        /\ otps' = OtpsAfterVerify(ph, c, pu)
        /\ Set(p, [IdleProc EXCEPT !.pc = "done", !.op = "verify_otp", !.usr = ph,
                                   !.ty = pu, !.pin = c, !.tid = MatchedOtp(ph, c, pu),
                                   !.out = VerifyAnswer(ph, c, pu)])
    /\ UNCHANGED <<balance, reserved, txns, lock, clock, accounts, sessions, registered, payouts>>

\* the calls come one after the other
NextOtp ==
    \/ \E p \in Procs :
            \/ create_otp(p)
            \/ verify_otp(p)
            \/ Return(p)
    \/ Tick

SpecOtp ==
    Init /\ [][NextOtp]_vars

\* the OTP of a pair that was created last
LatestOtp(ph, pu) ==
    CHOOSE i \in OtpsOf(ph, pu) : \A j \in OtpsOf(ph, pu) : j <= i

\* C28: after any sequence of create_otp and verify_otp calls, verify_otp
\* succeeds only for the most recently created OTP of the pair, unexpired and
\* not yet used, and consumes it; creating an OTP invalidates the earlier ones
\* of the pair, so that at most the latest one can still be verified.
C28_OnlyLatestOtpVerifies ==
    /\ [](\A ph \in Phones, pu \in Purposes : \A i \in OtpsOf(ph, pu) :
            OtpValid(i) => i = LatestOtp(ph, pu))
    /\ [][\A p \in Procs :
            (proc[p].pc = "idle" /\ proc'[p].op = "verify_otp" /\ proc'[p].out # "False")
            => LET t == proc'[p].tid IN
               /\ proc'[p].out = "True"
               /\ t = LatestOtp(proc'[p].usr, proc'[p].ty)
               /\ otps[t].code = proc'[p].pin
               /\ ~otps[t].used /\ otps[t].expires > clock
               /\ otps'[t].used
               /\ \A i \in OtpIds :
                    (otps'[i].phone = otps[t].phone /\ otps'[i].purpose = otps[t].purpose
                        /\ otps'[i].code = otps[t].code)
                    => otps'[i].used \/ otps'[i].expires <= clock']_vars

\* a code was verified after an earlier OTP of the same pair had been replaced
C28_Witness ==
    \E p \in Procs :
        /\ proc[p].op = "verify_otp" /\ proc[p].out = "True"
        /\ Cardinality(OtpsOf(proc[p].usr, proc[p].ty)) >= 2
        /\ otps[proc[p].tid].used

\* ---- OTPVerifyView and UserRegistrationView (users/views.py) ----
\* OTP.objects.get(phone_number, code, purpose) in OTPVerifyView looks at
\* every row of the pair with that code, used or not
OtpsWithCode(ph, c, pu) ==
    {i \in OtpsOf(ph, pu) : otps[i].code = c}

\* OTPVerifyView.post: verify_otp, then the second lookup of the OTP row, then
\* 'phone_verified' and 'verified_phone' are put into the client's session
OTPVerifyView(p) ==
    /\ proc[p].pc = "idle"
    /\ Accept
    /\ \E cl \in Clients, ph \in Phones, pu \in Purposes, c \in Codes :
        LET r == [IdleProc EXCEPT !.pc = "done", !.op = "otp_verify", !.usr = ph,
                                  !.ty = pu, !.pin = c, !.rcp = cl,
                                  !.tid = MatchedOtp(ph, c, pu)] IN
        /\ otps' = OtpsAfterVerify(ph, c, pu)
        /\ IF VerifyAnswer(ph, c, pu) = "False"
           THEN /\ Set(p, [r EXCEPT !.out = "InvalidOTP"])
                /\ UNCHANGED sessions
           ELSE IF VerifyAnswer(ph, c, pu) # "True" \/ Cardinality(OtpsWithCode(ph, c, pu)) > 1
           THEN /\ Set(p, [r EXCEPT !.out = "MultipleObjectsReturned"])
                /\ UNCHANGED sessions
           ELSE /\ Set(p, [r EXCEPT !.out = "ok"])
                /\ sessions' = [sessions EXCEPT ![cl] =
                                    [phone_verified |-> TRUE, verified_phone |-> ph]]
    /\ UNCHANGED <<balance, reserved, txns, lock, clock, accounts, registered, payouts>>

\* the request body names a phone number, or leaves it to the session
RequestPhones ==
    Phones \cup {"absent"}
\* if 'phone_number' not in request_data: request_data['phone_number'] = phone_number
RegistrationPhone(req, verified) ==
    IF req = "absent" THEN verified ELSE req

\* UserRegistrationView.post: the session check, the serializer (phone number
\* unique among users), serializer.save, and the clearing of the session
UserRegistrationView(p) ==
    /\ proc[p].pc = "idle"
    /\ Accept
    /\ \E cl \in Clients, req \in RequestPhones :
        LET ph == RegistrationPhone(req, sessions[cl].verified_phone)
            r == [IdleProc EXCEPT !.pc = "done", !.op = "register", !.rcp = cl, !.usr = ph] IN
        IF ~sessions[cl].phone_verified
        THEN /\ Set(p, [r EXCEPT !.out = "NotVerified", !.usr = ""])
             /\ UNCHANGED <<sessions, registered>>
        ELSE IF registered[ph] # NotRegistered
        THEN /\ Set(p, [r EXCEPT !.out = "AlreadyExists"])
             /\ UNCHANGED <<sessions, registered>>
        ELSE /\ Set(p, [r EXCEPT !.out = "ok"])
             /\ registered' = [registered EXCEPT ![ph] = sessions[cl].verified_phone]
             /\ sessions' = [sessions EXCEPT ![cl] = NoSession]
    /\ UNCHANGED <<balance, reserved, txns, lock, clock, accounts, otps, payouts>>

NextRegistration ==
    \E p \in Procs :
        \/ create_otp(p)
        \/ OTPVerifyView(p)
        \/ UserRegistrationView(p)
        \/ Return(p)

SpecRegistration ==
    Init /\ [][NextRegistration]_vars

\* C29: a user account is only created for a phone number that was
\* OTP-verified earlier in the same session: without a verified session the
\* registration is rejected, the phone number registered is the one the
\* session verified, and a registration uses the verification up.
C29_RegistersVerifiedPhoneOnly ==
    /\ [](\A ph \in Phones : registered[ph] # NotRegistered => registered[ph] = ph)
    /\ [][\A p \in Procs :
            (proc[p].pc = "idle" /\ proc'[p].op = "register")
            => /\ ~sessions[proc'[p].rcp].phone_verified => registered' = registered
               /\ registered' # registered => ~sessions'[proc'[p].rcp].phone_verified]_vars

\* ---- DriverPayoutAccount (users/models.py, users/views.py) ----
\* the accounts of driver d other than a that hold the flag
OtherPrimaries(rows, a, d) ==
    {b \in PayoutIds \ {a} : rows[b].driver = d /\ rows[b].primary}

\* a save that writes the row and leaves the others alone
SaveWithoutClearing(rows, a, row) ==
    [rows EXCEPT ![a] = row]

\* DriverPayoutAccount.save: if self.is_primary, the other primary accounts of
\* the driver are updated to is_primary=False; then the row is written
PayoutSave(rows, a, row) ==
    [b \in PayoutIds |->
        IF b = a THEN row
        ELSE IF row.primary /\ b \in OtherPrimaries(rows, a, row.driver)
        THEN [rows[b] EXCEPT !.primary = FALSE]
        ELSE rows[b]]

\* the table after account a was saved as row, with the bookkeeping of the model
AfterPayoutSave(a, row) ==
    [rows |-> PayoutSave(payouts.rows, a, row),
     last |-> IF row.primary THEN [payouts.last EXCEPT ![row.driver] = a] ELSE payouts.last,
     moved |-> IF row.primary /\ OtherPrimaries(payouts.rows, a, row.driver) # {}
               THEN [payouts.moved EXCEPT ![row.driver] = TRUE] ELSE payouts.moved]

\* DriverPayoutAccountViewSet.create: serializer.save(driver=request.user),
\* is_primary as the request gives it
PayoutCreate ==
    /\ Accept
    /\ \E a \in PayoutIds : payouts.rows[a] = NoPayoutAccount
    /\ \E d \in Drivers, prim \in BOOLEAN :
        LET a == CHOOSE x \in PayoutIds :
                    /\ payouts.rows[x] = NoPayoutAccount
                    /\ \A y \in PayoutIds : payouts.rows[y] = NoPayoutAccount => x <= y IN
        payouts' = AfterPayoutSave(a, [driver |-> d, primary |-> prim])
    /\ UNCHANGED <<balance, reserved, txns, lock, clock, proc, accounts, otps, sessions, registered>>

\* the accounts get_object finds for driver d: get_queryset is the driver's own
OwnAccounts(d) ==
    {a \in PayoutIds : payouts.rows[a].driver = d}

\* DriverPayoutAccountViewSet.set_primary: account.is_primary = True; account.save()
set_primary ==
    /\ Accept
    /\ \E d \in Drivers : \E a \in OwnAccounts(d) :
        payouts' = AfterPayoutSave(a, [payouts.rows[a] EXCEPT !.primary = TRUE])
    /\ UNCHANGED <<balance, reserved, txns, lock, clock, proc, accounts, otps, sessions, registered>>

\* update / partial_update of the ModelViewSet: is_primary is a writable field
\* of DriverPayoutAccountSerializer
PayoutUpdate ==
    /\ Accept
    /\ \E d \in Drivers, prim \in BOOLEAN : \E a \in OwnAccounts(d) :
        payouts' = AfterPayoutSave(a, [payouts.rows[a] EXCEPT !.primary = prim])
    /\ UNCHANGED <<balance, reserved, txns, lock, clock, proc, accounts, otps, sessions, registered>>

NextPayouts ==
    \/ PayoutCreate
    \/ set_primary
    \/ PayoutUpdate

SpecPayouts ==
    Init /\ [][NextPayouts]_vars

\* the accounts of driver d that hold the flag
Primaries(d) ==
    {a \in OwnAccounts(d) : payouts.rows[a].primary}

====
